---- MODULE Spec2Model ----
(***************************************************************************)
(* Model of the clover request-handler factory (makeRequestHandler): the   *)
(* construction-time check of the route descriptor and the per-request     *)
(* pipeline  method check -> authentication -> input extraction ->         *)
(* validation -> dispatch, with the responses and log events it produces.  *)
(***************************************************************************)
EXTENDS Integers, Sequences, FiniteSets, TLC

VARIABLES route, inv, globalLogger, setLoggerArgs

vars == <<route, inv, globalLogger, setLoggerArgs>>

(***************************************************************************)
(* Plain data                                                              *)
(***************************************************************************)

\* The empty mapping {} .
EmptyObj == [k \in {} |-> k]

\* { ...a, ...b } : own keys of a, then own keys of b; b wins on a collision.
Spread(a, b) ==
  [k \in (DOMAIN a) \cup (DOMAIN b) |-> IF k \in DOMAIN b THEN b[k] ELSE a[k]]

Str(s) == [t |-> "string", v |-> s]
Num(s) == [t |-> "number", v |-> s]

\* A placeholder for a variable that holds nothing yet (JS undefined).
Undefined == [t |-> "undefined"]

HTTPMethod == {"GET", "POST", "PUT", "PATCH", "DELETE"}

\* A table that gives DELETE a request body too.
httpMethodSupportsRequestBody_DeleteBody ==
  [m \in HTTPMethod |-> m # "GET"]

httpMethodSupportsRequestBody ==
  [m \in HTTPMethod |-> m \in {"POST", "PUT", "PATCH"}]

(***************************************************************************)
(* Path templates and concrete paths                                       *)
(***************************************************************************)

Lit(s) == [k |-> "lit", s |-> s]
Param(s) == [k |-> "param", s |-> s]

\* /api   /api/:id   /:id/:name   /api/:constructor
Templates ==
  { <<Lit("api")>>,
    <<Lit("api"), Param("id")>>,
    <<Param("id"), Param("name")>>,
    <<Lit("api"), Param("constructor")>> }

\* Concrete request paths, as raw (still percent-encoded) segments.
Paths ==
  { <<"api">>, <<"api", "a">>, <<"api", "%62">>, <<"api", "%E0%A4%A">>,
    <<"other", "a">> }

\* Segments on which decodeURIComponent throws URIError.
MalformedSegments == {"%E0%A4%A"}

\* decodeURIComponent on the segments of the model.
decodeURIComponent(s) == IF s = "%62" THEN "b" ELSE s

RECURSIVE KeysFrom(_, _)
KeysFrom(pattern, n) ==
  IF n > Len(pattern) THEN <<>>
  ELSE IF pattern[n].k = "param"
       THEN <<[name |-> pattern[n].s]>> \o KeysFrom(pattern, n + 1)
       ELSE KeysFrom(pattern, n + 1)

RECURSIVE KeysOnce(_, _)
KeysOnce(pattern, n) ==
  IF n > Len(pattern) THEN <<>>
  ELSE IF pattern[n].k = "param"
          /\ \A m \in 1..(n - 1) : pattern[m] # pattern[n]
       THEN <<[name |-> pattern[n].s]>> \o KeysOnce(pattern, n + 1)
       ELSE KeysOnce(pattern, n + 1)

\* A key extraction that keeps the first occurrence of a name only.
getKeysFromPathPattern_Deduplicated(pattern) == KeysOnce(pattern, 1)

\* pathToRegexp(pattern, keys): the parameter tokens in order of appearance.
getKeysFromPathPattern(pattern) == KeysFrom(pattern, 1)

KeyNames(pattern) ==
  {getKeysFromPathPattern(pattern)[n].name :
     n \in 1..Len(getKeysFromPathPattern(pattern))}

\* The matcher of match(pattern): same number of segments, equal literals.
PathMatches(pattern, input) ==
  /\ Len(pattern) = Len(input)
  /\ \A n \in 1..Len(pattern) : pattern[n].k = "lit" => pattern[n].s = input[n]

\* The matcher decodes every bound segment and throws where decoding throws.
ParamsThrow(pattern, input) ==
  /\ PathMatches(pattern, input)
  /\ \E n \in 1..Len(pattern) :
        pattern[n].k = "param" /\ input[n] \in MalformedSegments

\* getParamsFromPath(pattern, input): {} on no match, else name -> decoded
\* string (the last token of a name wins).
getParamsFromPath(pattern, input) ==
  IF ~PathMatches(pattern, input) THEN EmptyObj
  ELSE [name \in KeyNames(pattern) |->
          LET n == CHOOSE m \in 1..Len(pattern) :
                     /\ pattern[m] = Param(name)
                     /\ \A l \in 1..Len(pattern) : pattern[l] = Param(name) => l <= m
          IN  Str(decodeURIComponent(input[n]))]

(***************************************************************************)
(* Input schemas (z.object of string fields) and validation                *)
(***************************************************************************)

FieldNames == {"id", "name"}

\* Names every object inherits from Object.prototype (what `in` also sees).
InheritedNames == {"constructor"}

MaxFields == 2

Field(n, o) == [name |-> n, optional |-> o]

NoDuplicateNames(sh) ==
  \A a, b \in 1..Len(sh) : sh[a].name = sh[b].name => a = b

\* The shape of a schema: its fields in construction order.
Schemas ==
  UNION { {sh \in [1..l -> [name : FieldNames, optional : BOOLEAN]] :
             NoDuplicateNames(sh)} : l \in 0..MaxFields }

ShapeKeys(shape) == {shape[n].name : n \in 1..Len(shape)}

FieldOf(shape, name) == shape[CHOOSE n \in 1..Len(shape) : shape[n].name = name]

\* `name in shape` : own keys and inherited ones.
InShape(name, shape) == name \in ShapeKeys(shape) \cup InheritedNames

\* The issues z.object(shape).safeParse(data) reports: a declared field that
\* is absent and not optional, or present and not a string.
Issues(shape, data) ==
  { [code |-> "invalid_type", path |-> f] : f \in
      { g \in ShapeKeys(shape) :
          IF g \in DOMAIN data THEN data[g].t # "string"
          ELSE ~FieldOf(shape, g).optional } }

\* schema.safeParseAsync(data): the parsed value keeps declared keys only.
safeParseAsync(shape, data) ==
  IF Issues(shape, data) = {}
  THEN [success |-> TRUE,
        data |-> [k \in ShapeKeys(shape) \cap DOMAIN data |-> data[k]]]
  ELSE [success |-> FALSE, error |-> [issues |-> Issues(shape, data)]]

(***************************************************************************)
(* Requests                                                                *)
(***************************************************************************)

Obj1(k, v) == [x \in {k} |-> v]
Obj2(k1, v1, k2, v2) == [x \in {k1, k2} |-> IF x = k1 THEN v1 ELSE v2]

\* Parsed query strings (URLSearchParams entries: always strings).
Queries ==
  { EmptyObj, Obj1("name", Str("q")), Obj2("id", Str("q"), "name", Str("q")) }

NoBody == [t |-> "nobody"]
NotJson == [t |-> "text"]
JsonBody(o) == [t |-> "json", v |-> o]

Bodies ==
  { NoBody, NotJson, JsonBody(EmptyObj),
    JsonBody(Obj1("name", Str("p"))),
    JsonBody(Obj1("name", Num("7"))),
    JsonBody(Obj2("id", Str("p"), "name", Str("p"))) }

RequestMethods == {"GET", "POST"}

Requests == [method : RequestMethods, path : Paths, query : Queries, body : Bodies]

\* request.url, kept as its parts.
UrlOf(request) == [pathname |-> request.path, search |-> request.query]

\* A prefix that names the route's method, not the incoming request's.
getLoggingPrefix_RouteMethod(request) ==
  [method |-> route.props.method, pathname |-> request.path]

\* `Handler <METHOD> <pathname>`
getLoggingPrefix(request) ==
  [method |-> request.method, pathname |-> UrlOf(request).pathname]

(***************************************************************************)
(* Framework responses                                                     *)
(***************************************************************************)

NullBody == [t |-> "null"]
Json(o) == [t |-> "json", v |-> o]

NoHeaders == EmptyObj
JsonHeaders == Obj1("Content-Type", "application/json")

Response405 ==
  [by |-> "framework", status |-> 405, headers |-> NoHeaders,
   body |-> Json([error |-> "Method not allowed"])]

Response400(details) ==
  [by |-> "framework", status |-> 400, headers |-> NoHeaders,
   body |-> Json([error |-> "Bad request", details |-> details])]

\* A 401 response with a JSON body like the others.
Response401_JsonBody ==
  [by |-> "framework", status |-> 401, headers |-> NoHeaders,
   body |-> Json([error |-> "Unauthorized"])]

\* new Response(null, { status: 401 })
Response401 ==
  [by |-> "framework", status |-> 401, headers |-> NoHeaders, body |-> NullBody]

\* Values a callback can throw.
Err(m) == [t |-> "Error", message |-> m]
ThrownString == [t |-> "string", v |-> "oops"]
ThrownNull == [t |-> "null"]
Thrown == {Err("e1"), Err("e2"), ThrownString, ThrownNull}

\* Reading error.message throws TypeError on null/undefined.
Response500Throws(error) == error.t = "null"

\* A 500 response with a fixed body.
Response500_Generic(error) ==
  [by |-> "framework", status |-> 500, headers |-> NoHeaders,
   body |-> Json([error |-> "Internal server error"])]

\* JSON.stringify({ error: error.message }): an undefined message is dropped.
Response500(error) ==
  [by |-> "framework", status |-> 500, headers |-> NoHeaders,
   body |-> IF error.t = "Error" THEN Json([error |-> error.message])
            ELSE Json(EmptyObj)]

\* error instanceof Error ? error : new Error(String(error))
AsError(error) ==
  IF error.t = "Error" THEN error
  ELSE IF error.t = "string" THEN Err(error.v) ELSE Err("null")

(***************************************************************************)
(* Documentation object                                                    *)
(***************************************************************************)

\* A rewrite of the first `:name` only, as a replace without the global flag.
toOpenAPIPath_FirstOnly(pattern) ==
  [n \in 1..Len(pattern) |->
     IF pattern[n].k = "param" /\ \A m \in 1..(n - 1) : pattern[m].k # "param"
     THEN [k |-> "brace", s |-> pattern[n].s]
     ELSE pattern[n]]

\* `:name` -> `{name}`, everything else kept.
toOpenAPIPath(pattern) ==
  [n \in 1..Len(pattern) |->
     IF pattern[n].k = "param" THEN [k |-> "brace", s |-> pattern[n].s]
     ELSE pattern[n]]

\* createSchema(field).schema for a string field.
createSchema(shape, name) ==
  IF name \in ShapeKeys(shape) THEN [type |-> "string"] ELSE Undefined

RECURSIVE QueryParams(_, _, _)
QueryParams(shape, pathKeyNames, n) ==
  IF n > Len(shape) THEN <<>>
  ELSE IF shape[n].name \in pathKeyNames
       THEN QueryParams(shape, pathKeyNames, n + 1)
       ELSE <<[name |-> shape[n].name, in |-> "query",
               required |-> ~shape[n].optional,
               schema |-> createSchema(shape, shape[n].name)]>>
            \o QueryParams(shape, pathKeyNames, n + 1)

\* Field names that are canonical array indices ("7"): own-property
\* enumeration lists them before every other name.
IntegerLikeNames == {"7"}

\* Object.keys(input.shape), as the fields it names: the integer-like names
\* first (in ascending order; a shape here has at most one), then the other
\* names in the order the shape was written.
ObjectKeys(shape) ==
  SelectSeq(shape, LAMBDA field : field.name \in IntegerLikeNames)
    \o SelectSeq(shape, LAMBDA field : field.name \notin IntegerLikeNames)

buildQueryParameters(shape, pathKeyNames) ==
  QueryParams(ObjectKeys(shape), pathKeyNames, 1)

buildPathParameters(shape, pathKeys) ==
  [n \in 1..Len(pathKeys) |->
     [name |-> pathKeys[n].name, in |-> "path", required |-> TRUE,
      schema |-> createSchema(shape, pathKeys[n].name)]]

buildOpenAPIPathsObject(params) ==
  LET pathKeys == getKeysFromPathPattern(params.path)
      pathKeyNames == {pathKeys[n].name : n \in 1..Len(pathKeys)}
      parameters ==
        IF httpMethodSupportsRequestBody[params.method]
        THEN buildPathParameters(params.input, pathKeys)
        ELSE buildQueryParameters(params.input, pathKeyNames)
             \o buildPathParameters(params.input, pathKeys)
      requestBody ==
        IF httpMethodSupportsRequestBody[params.method]
        THEN [content |-> [json |-> params.input]]
        ELSE Undefined
      responses ==
        [code \in {200, 400, 401} |->
           IF code = 200 THEN [description |-> "Success"]
           ELSE IF code = 400 THEN [description |-> "Bad request"]
           ELSE IF params.requiresAuth THEN [description |-> "Unauthorized"]
           ELSE Undefined]
  IN  [path |-> toOpenAPIPath(params.path),
       method |-> params.method,
       operation |-> [parameters |-> parameters,
                      requestBody |-> requestBody,
                      responses |-> responses]]

(***************************************************************************)
(* Route construction                                                      *)
(***************************************************************************)

RouteMethods == {"GET", "POST"}

\* The route descriptors: props.authenticate is TRUE when one is configured.
Props ==
  [input : Schemas, method : RouteMethods, path : Templates,
   authenticate : BOOLEAN]

\* pathKeys.filter((key) => !(key.name in props.input.shape))
missingParams(props) ==
  SelectSeq(getKeysFromPathPattern(props.path),
            LAMBDA key : ~InShape(key.name, props.input))

\* A path parameter that passes the `in` test without being a field: the
\* documentation builder then hands a non-schema value to createSchema, and
\* src/ does not determine whether that call throws.
NonFieldParam(props) ==
  /\ missingParams(props) = <<>>
  /\ \E name \in KeyNames(props.path) : name \notin ShapeKeys(props.input)

NotConstructed == [state |-> "none"]

ThrewMissing(props) ==
  [state |-> "threw",
   props |-> props,
   message |-> [missingNames |-> [n \in 1..Len(missingParams(props)) |->
                                    missingParams(props)[n].name],
                path |-> props.path,
                plural |-> Len(missingParams(props)) > 1]]

\* An error of the documentation builder: its message names no parameter.
ThrewOther(props) ==
  [state |-> "threw", props |-> props,
   message |-> [missingNames |-> <<>>, path |-> props.path, plural |-> FALSE]]

\* A construction that documents every route as requiring authentication.
Constructed_AlwaysRequiresAuth(props) ==
  [state |-> "constructed",
   props |-> props,
   openAPIPathsObject |->
     buildOpenAPIPathsObject([input |-> props.input, method |-> props.method,
                              path |-> props.path, requiresAuth |-> TRUE]),
   clientConfig |-> [input |-> EmptyObj, method |-> props.method,
                     path |-> props.path]]

Constructed(props) ==
  [state |-> "constructed",
   props |-> props,
   openAPIPathsObject |->
     buildOpenAPIPathsObject([input |-> props.input, method |-> props.method,
                              path |-> props.path,
                              requiresAuth |-> props.authenticate]),
   clientConfig |-> [input |-> EmptyObj, method |-> props.method,
                     path |-> props.path]]

\* makeRequestHandler(props)
MakeRequestHandler(props) ==
  /\ route = NotConstructed
  /\ route' \in IF missingParams(props) # <<>> THEN {ThrewMissing(props)}
                ELSE IF NonFieldParam(props)
                     THEN {ThrewOther(props), Constructed(props)}
                     ELSE {Constructed(props)}
  /\ UNCHANGED <<inv, globalLogger, setLoggerArgs>>

(***************************************************************************)
(* The handler: one invocation per slot                                    *)
(***************************************************************************)

Slots == {1}

defaultLogger == "defaultLogger"

\* The loggers an application may install (the default one among them).
Loggers == {defaultLogger, "loggerA", "loggerB"}

\* How many setLogger calls a behaviour makes at most.
MaxSetLoggerCalls == 3

\* getLogger()
getLogger == globalLogger

\* A setLogger that installs a logger only while the default is in place.
SetLogger_OnlyOnce(logger) ==
  /\ Len(setLoggerArgs) < MaxSetLoggerCalls
  /\ globalLogger' = IF globalLogger = defaultLogger THEN logger
                     ELSE globalLogger
  /\ setLoggerArgs' = Append(setLoggerArgs, logger)
  /\ UNCHANGED <<route, inv>>

\* setLogger(logger); setLoggerArgs keeps the arguments of the calls so far.
SetLogger(logger) ==
  /\ Len(setLoggerArgs) < MaxSetLoggerCalls
  /\ globalLogger' = logger
  /\ setLoggerArgs' = Append(setLoggerArgs, logger)
  /\ UNCHANGED <<route, inv>>

\* What the user-provided authenticate can do.
AuthContexts == {[user |-> "u1"], [user |-> "u2"]}

\* The values the `authenticated` property of a result can hold.
JsTrue == [t |-> "boolean", v |-> "true"]
JsFalse == [t |-> "boolean", v |-> "false"]

AuthOk(c) == [authenticated |-> JsTrue, context |-> c]
AuthDenied(r) == [authenticated |-> JsFalse, reason |-> r]

\* A result that is neither variant: its `authenticated` is the string
\* "false", with no context and no reason.
AuthMalformed == [authenticated |-> Str("false")]

AuthenticateOutcomes ==
  {[k |-> "resolve", result |-> AuthOk(c)] : c \in AuthContexts}
    \cup {[k |-> "resolve", result |-> AuthDenied("bad token")],
          [k |-> "resolve", result |-> EmptyObj],
          [k |-> "resolve", result |-> AuthMalformed],
          [k |-> "resolve", result |-> Undefined],
          [k |-> "throw", error |-> Err("e1")]}

\* Stands for "no authenticate configured" where an outcome is expected.
NoAuthenticate == [k |-> "none"]

\* What the user-provided run can do with what it is given.
\* options.headers is a HeadersInit: a plain object of names and values, or
\* an instance of Headers holding them.
CustomHeaders == Obj1("X-Custom-Header", "test")
HeadersInstance(entries) == [t |-> "Headers", entries |-> entries]
IsHeadersInstance(headers) == "t" \in DOMAIN headers /\ headers.t = "Headers"

RunBehaviours ==
  {[k |-> "sendOutput", options |-> Undefined],
   [k |-> "sendOutput", options |-> [status |-> 201]],
   [k |-> "sendOutput", options |-> [status |-> 204]],
   [k |-> "sendOutput", options |-> [headers |-> CustomHeaders]],
   [k |-> "sendOutput",
    options |-> [status |-> 201, headers |-> HeadersInstance(CustomHeaders)]],
   [k |-> "sendError", status |-> 404, message |-> "Not Found",
    data |-> Undefined],
   [k |-> "sendError", status |-> 422, message |-> "Unprocessable",
    data |-> [field |-> "name"]],
   [k |-> "respond", status |-> 401]}
    \cup {[k |-> "throw", error |-> e] : e \in Thrown}

Log(level, request, msg, meta) ==
  [level |-> level, prefix |-> getLoggingPrefix(request), msg |-> msg,
   meta |-> meta]

\* The request objects of one invocation: the caller's request and the two
\* copies the handler makes of it.
RequestObjects == {"request", "requestForAuth", "requestForRun"}

\* A copy that is the original itself: authenticate is handed `request`.
AuthenticateArgument_Original == "request"

\* The object handleAuthentication hands to authenticate.
AuthenticateArgument == "requestForAuth"

\* The object the handler hands to run as `request`.
RunArgument == "requestForRun"

\* A body can be read once: a second read rejects with a TypeError.
BodyRead(bodyUsed, object, body) ==
  IF bodyUsed[object] THEN Err("TypeError") ELSE body

Idle ==
  [pc |-> "idle", request |-> Undefined, logger |-> "none",
   authenticateCalls |-> 0, runCalls |-> 0, bodyReads |-> 0,
   authOutcome |-> Undefined, authResult |-> Undefined, unsafeData |-> Undefined, input |-> Undefined,
   runArgs |-> Undefined, thrown |-> Undefined, logs |-> <<>>,
   settled |-> Undefined,
   bodyUsed |-> EmptyObj, frameworkRead |-> Undefined,
   authenticateRead |-> Undefined, runRead |-> Undefined,
   runBehaviour |-> Undefined]

Fulfilled(response) == [state |-> "fulfilled", response |-> response]
Rejected(reason) == [state |-> "rejected", reason |-> reason]

\* A method check that lets every known method through.
MethodAllowed_AnyMethod(request, props) == request.method \in HTTPMethod

\* A handler that remembers the requests it has seen and lets each through
\* the method check only once.
MethodAllowed_OncePerRequest(request, props) ==
  /\ request.method = props.method
  /\ \A j \in DOMAIN inv : inv[j].request # request

\* request.method !== props.method, negated
MethodAllowed(request, props) == request.method = props.method

\* A handler that calls authenticate before it checks the method.
HandlerCall_AuthenticateFirst(i, request) ==
  /\ route.state = "constructed"
  /\ inv[i].pc = "idle"
  /\ LET begin == Log("debug", request, [e |-> "begin"], Undefined)
         started == [Idle EXCEPT !.request = request,
                                 !.logger = getLogger,
                                 !.bodyUsed = IF route.props.authenticate
                                              THEN [o \in RequestObjects |-> FALSE]
                                              ELSE [o \in {"request", "requestForRun"}
                                                      |-> FALSE],
                                 !.authenticateCalls =
                                    IF route.props.authenticate THEN 1 ELSE 0,
                                 !.logs = <<begin>>]
     IN  IF ~MethodAllowed(request, route.props)
         THEN inv' = [inv EXCEPT ![i] =
                [started EXCEPT !.pc = "settled",
                                !.settled = Fulfilled(Response405)]]
         ELSE inv' = [inv EXCEPT ![i] =
                [started EXCEPT !.pc = "awaitAuthentication"]]
  /\ UNCHANGED <<route, globalLogger, setLoggerArgs>>

\* handler(request), up to its first await: getLogger, the copy for run,
\* begin, method check, then the call of handleAuthentication (which makes the
\* copy for authenticate and calls it).
HandlerCall(i, request) ==
  /\ route.state = "constructed"
  /\ inv[i].pc = "idle"
  /\ LET begin == Log("debug", request, [e |-> "begin"], Undefined)
         started == [Idle EXCEPT !.request = request,
                                 !.logger = getLogger,
                                 !.bodyUsed = [o \in {"request", "requestForRun"}
                                                 |-> FALSE],
                                 !.logs = <<begin>>]
     IN  IF ~MethodAllowed(request, route.props)
         THEN inv' = [inv EXCEPT ![i] =
                [started EXCEPT
                   !.pc = "settled",
                   !.logs = Append(@,
                      Log("warn", request,
                          [e |-> "invalid HTTP method",
                           received |-> request.method,
                           expected |-> route.props.method],
                          [expectedMethod |-> route.props.method,
                           actualMethod |-> request.method,
                           url |-> UrlOf(request)])),
                   !.settled = Fulfilled(Response405)]]
         ELSE inv' = [inv EXCEPT ![i] =
                [started EXCEPT
                   !.pc = "awaitAuthentication",
                   !.bodyUsed = IF route.props.authenticate
                                THEN [o \in RequestObjects |-> FALSE] ELSE @,
                   !.authenticateCalls =
                      IF route.props.authenticate THEN 1 ELSE 0]]
  /\ UNCHANGED <<route, globalLogger, setLoggerArgs>>

\* The result for a route without authenticate, turned into a denial.
NoAuthenticateResult_Denied == AuthDenied("no authenticate")

\* The result handleAuthentication gives when no authenticate is configured.
NoAuthenticateResult == [authenticated |-> JsTrue, context |-> Undefined]

\* The pre-2.6.1 behaviour: an authentication error lets the request through.
AuthenticationErrorResult_FailOpen == [authenticated |-> JsTrue, context |-> Undefined]

\* The result handleAuthentication gives from its catch block (fail closed).
AuthenticationErrorResult == AuthDenied("Authentication error")

\* object[name] of JavaScript: undefined for a property that is not there.
Prop(object, name) == IF name \in DOMAIN object THEN object[name] ELSE Undefined

\* What `!value` negates: false, undefined and the empty string are falsy.
ToBoolean(value) == value \notin {JsFalse, Undefined, Str("")}

\* The test `!authResult.authenticated` of the handler, negated.
IsAuthenticated(result) ==
  /\ result # Undefined
  /\ ToBoolean(Prop(result, "authenticated"))

\* handleAuthentication: `authenticate` says whether one is configured and
\* `outcome` is how the call of it settles. Gives the auth result and the
\* log entries written.
handleAuthentication(authenticate, request, outcome) ==
  IF ~authenticate
  THEN [result |-> NoAuthenticateResult, logs |-> <<>>]
  ELSE IF outcome.k = "throw" \/ outcome.result = Undefined
  THEN \* the catch block; reading `.authenticated` of undefined throws too
       [result |-> AuthenticationErrorResult,
        logs |-> <<Log("error", request,
                       [e |-> "error during authentication check"],
                       [error |-> IF outcome.k = "throw"
                                  THEN AsError(outcome.error)
                                  ELSE Err("TypeError"),
                        url |-> UrlOf(request)])>>]
  ELSE IF ~IsAuthenticated(outcome.result)
  THEN LET reason == IF "reason" \in DOMAIN outcome.result
                     THEN outcome.result.reason ELSE "undefined"
       IN  [result |-> outcome.result,
            logs |-> <<Log("debug", request,
                           [e |-> "authentication failed", reason |-> reason],
                           [url |-> UrlOf(request), reason |-> reason])>>]
  ELSE [result |-> outcome.result, logs |-> <<>>]

\* A fallback that takes the query string when the body does not parse.
BodyParseFallback_Query(request) == UrlOf(request).search

\* What the catch block around request.json() substitutes for the body.
BodyParseFallback(request) == EmptyObj

\* await request.json(): the parsed body, or a rejection.
RequestJson(request) ==
  IF request.body.t = "json" THEN [ok |-> TRUE, value |-> request.body.v]
  ELSE [ok |-> FALSE, error |-> Err("SyntaxError")]

\* An extraction that lets the query string contribute on every method.
extractRawInput_QueryToo(request, path) ==
  LET pathParams == getParamsFromPath(path, UrlOf(request).pathname)
      parsed == RequestJson(request)
      bodyOrQueryParams ==
        IF httpMethodSupportsRequestBody[request.method]
        THEN Spread(UrlOf(request).search,
                    IF parsed.ok THEN parsed.value ELSE BodyParseFallback(request))
        ELSE UrlOf(request).search
  IN  [data |-> Spread(pathParams, bodyOrQueryParams),
       logs |-> IF httpMethodSupportsRequestBody[request.method] /\ ~parsed.ok
                THEN <<Log("warn", request,
                           [e |-> "error parsing request body"],
                           [error |-> parsed.error, url |-> UrlOf(request)])>>
                ELSE <<>>]

\* extractRawInput once getParamsFromPath has returned: the merged mapping
\* and the log entries written.
extractRawInput(request, path) ==
  LET pathParams == getParamsFromPath(path, UrlOf(request).pathname)
      parsed == RequestJson(request)
      bodyOrQueryParams ==
        IF httpMethodSupportsRequestBody[request.method]
        THEN IF parsed.ok THEN parsed.value ELSE BodyParseFallback(request)
        ELSE UrlOf(request).search
  IN  [data |-> Spread(pathParams, bodyOrQueryParams),
       logs |-> IF httpMethodSupportsRequestBody[request.method] /\ ~parsed.ok
                THEN <<Log("warn", request,
                           [e |-> "error parsing request body"],
                           [error |-> parsed.error, url |-> UrlOf(request)])>>
                ELSE <<>>]

\* A validateInput that lets the raw mapping through unchecked.
validateInput_Unchecked(schema, unsafeData, request) ==
  [success |-> TRUE, data |-> unsafeData, logs |-> <<>>]

\* A validateInput that checks the mapping and hands on the mapping itself.
validateInput_RawData(schema, unsafeData, request) ==
  LET parsedData == safeParseAsync(schema, unsafeData)
  IN  IF ~parsedData.success
      THEN [success |-> FALSE,
            response |-> Response400(parsedData.error),
            logs |-> <<Log("warn", request,
                           [e |-> "request validation failed"],
                           [validationError |-> parsedData.error,
                            receivedInput |-> unsafeData,
                            url |-> UrlOf(request)])>>]
      ELSE [success |-> TRUE, data |-> unsafeData, logs |-> <<>>]

\* validateInput: the parsed data on success, the 400 response on failure.
validateInput(schema, unsafeData, request) ==
  LET parsedData == safeParseAsync(schema, unsafeData)
  IN  IF ~parsedData.success
      THEN [success |-> FALSE,
            response |-> Response400(parsedData.error),
            logs |-> <<Log("warn", request,
                           [e |-> "request validation failed"],
                           [validationError |-> parsedData.error,
                            receivedInput |-> unsafeData,
                            url |-> UrlOf(request)])>>]
      ELSE [success |-> TRUE, data |-> parsedData.data, logs |-> <<>>]

\* A handler that asks for the global logger again after each await.
AuthenticationResumes_RereadsLogger(i, outcome) ==
  /\ inv[i].pc = "awaitAuthentication"
  /\ outcome \in IF route.props.authenticate THEN AuthenticateOutcomes
                 ELSE {NoAuthenticate}
  /\ LET request == inv[i].request
         auth == handleAuthentication(route.props.authenticate, request, outcome)
         after == [inv[i] EXCEPT !.authOutcome = outcome,
                                 !.authResult = auth.result,
                                 !.logger = getLogger,
                                 !.logs = @ \o auth.logs]
     IN  IF ~IsAuthenticated(auth.result)
         THEN inv' = [inv EXCEPT ![i] =
                [after EXCEPT !.pc = "settled",
                              !.settled = Fulfilled(Response401)]]
         ELSE IF ParamsThrow(route.props.path, UrlOf(request).pathname)
         THEN inv' = [inv EXCEPT ![i] =
                [after EXCEPT !.pc = "settled",
                              !.settled = Rejected("URIError")]]
         ELSE inv' = [inv EXCEPT ![i] =
                IF httpMethodSupportsRequestBody[request.method]
                THEN [after EXCEPT
                        !.pc = "awaitExtract",
                        !.bodyReads = @ + 1,
                        !.frameworkRead =
                           BodyRead(after.bodyUsed, "request", request.body),
                        !.bodyUsed = [@ EXCEPT !["request"] = TRUE]]
                ELSE [after EXCEPT !.pc = "awaitExtract"]]
  /\ UNCHANGED <<route, globalLogger, setLoggerArgs>>

\* The handler resumes after `await handleAuthentication(...)`: 401 when not
\* authenticated, otherwise extractRawInput starts (path matching, then the
\* body read on a body-capable method).
AuthenticationResumes(i, outcome) ==
  /\ inv[i].pc = "awaitAuthentication"
  /\ outcome \in IF route.props.authenticate THEN AuthenticateOutcomes
                 ELSE {NoAuthenticate}
  /\ LET request == inv[i].request
         auth == handleAuthentication(route.props.authenticate, request, outcome)
         after == [inv[i] EXCEPT !.authOutcome = outcome,
                                 !.authResult = auth.result,
                                 !.logs = @ \o auth.logs]
     IN  IF ~IsAuthenticated(auth.result)
         THEN inv' = [inv EXCEPT ![i] =
                [after EXCEPT !.pc = "settled",
                              !.settled = Fulfilled(Response401)]]
         ELSE IF ParamsThrow(route.props.path, UrlOf(request).pathname)
         THEN inv' = [inv EXCEPT ![i] =
                [after EXCEPT !.pc = "settled",
                              !.settled = Rejected("URIError")]]
         ELSE inv' = [inv EXCEPT ![i] =
                IF httpMethodSupportsRequestBody[request.method]
                THEN [after EXCEPT
                        !.pc = "awaitExtract",
                        !.bodyReads = @ + 1,
                        !.frameworkRead =
                           BodyRead(after.bodyUsed, "request", request.body),
                        !.bodyUsed = [@ EXCEPT !["request"] = TRUE]]
                ELSE [after EXCEPT !.pc = "awaitExtract"]]
  /\ UNCHANGED <<route, globalLogger, setLoggerArgs>>

\* The request as extractRawInput reads it: its body is what the read of
\* the original gave.
RequestAsRead(invocation) ==
  IF invocation.frameworkRead = Undefined THEN invocation.request
  ELSE [invocation.request EXCEPT !.body = invocation.frameworkRead]

\* A handler that keeps the raw input in a variable shared by its
\* invocations: whoever waits for validation sees the latest one.
ExtractResumes_Shared(i) ==
  /\ inv[i].pc = "awaitExtract"
  /\ LET raw == extractRawInput(RequestAsRead(inv[i]), route.props.path)
     IN  inv' = [j \in DOMAIN inv |->
            IF j = i
            THEN [inv[j] EXCEPT !.pc = "awaitValidate",
                                !.unsafeData = raw.data,
                                !.logs = @ \o raw.logs]
            ELSE IF inv[j].pc = "awaitValidate"
                 THEN [inv[j] EXCEPT !.unsafeData = raw.data]
                 ELSE inv[j]]
  /\ UNCHANGED <<route, globalLogger, setLoggerArgs>>

\* An extraction that reads the body of the request a second time when the
\* first read did not give JSON.
ExtractResumes_ReadsAgain(i) ==
  /\ inv[i].pc = "awaitExtract"
  /\ LET raw == extractRawInput(RequestAsRead(inv[i]), route.props.path)
     IN  inv' = [inv EXCEPT ![i] =
            [@ EXCEPT !.pc = "awaitValidate",
                      !.unsafeData = raw.data,
                      !.bodyReads = IF raw.logs # <<>> THEN @ + 1 ELSE @,
                      !.logs = @ \o raw.logs]]
  /\ UNCHANGED <<route, globalLogger, setLoggerArgs>>

\* extractRawInput returns the merged mapping; validateInput starts.
ExtractResumes(i) ==
  /\ inv[i].pc = "awaitExtract"
  /\ LET raw == extractRawInput(RequestAsRead(inv[i]), route.props.path)
     IN  inv' = [inv EXCEPT ![i] =
            [@ EXCEPT !.pc = "awaitValidate",
                      !.unsafeData = raw.data,
                      !.logs = @ \o raw.logs]]
  /\ UNCHANGED <<route, globalLogger, setLoggerArgs>>

\* A handler that keeps the auth result in a variable shared by its
\* invocations: run is given the context of the last slot that has one.
ValidateResumes_SharedContext(i) ==
  /\ inv[i].pc = "awaitValidate"
  /\ LET validationResult ==
           validateInput(route.props.input, inv[i].unsafeData, inv[i].request)
         after == [inv[i] EXCEPT !.logs = @ \o validationResult.logs]
         shared == CHOOSE j \in DOMAIN inv :
                     /\ inv[j].authResult # Undefined
                     /\ \A k \in DOMAIN inv :
                          inv[k].authResult # Undefined => k <= j
     IN  IF ~validationResult.success
         THEN inv' = [inv EXCEPT ![i] =
                [after EXCEPT !.pc = "settled",
                              !.settled = Fulfilled(validationResult.response)]]
         ELSE inv' = [inv EXCEPT ![i] =
                [after EXCEPT
                   !.pc = "awaitRun",
                   !.input = validationResult.data,
                   !.runCalls = @ + 1,
                   !.runArgs = [input |-> validationResult.data,
                                authContext |-> Prop(inv[shared].authResult,
                                                     "context")]]]
  /\ UNCHANGED <<route, globalLogger, setLoggerArgs>>

\* validateInput returns: 400 on failure, otherwise run is called.
ValidateResumes(i) ==
  /\ inv[i].pc = "awaitValidate"
  /\ LET validationResult ==
           validateInput(route.props.input, inv[i].unsafeData, inv[i].request)
         after == [inv[i] EXCEPT !.logs = @ \o validationResult.logs]
     IN  IF ~validationResult.success
         THEN inv' = [inv EXCEPT ![i] =
                [after EXCEPT !.pc = "settled",
                              !.settled = Fulfilled(validationResult.response)]]
         ELSE inv' = [inv EXCEPT ![i] =
                [after EXCEPT
                   !.pc = "awaitRun",
                   !.input = validationResult.data,
                   !.runCalls = @ + 1,
                   !.runArgs = [input |-> validationResult.data,
                                authContext |-> Prop(inv[i].authResult, "context")]]]
  /\ UNCHANGED <<route, globalLogger, setLoggerArgs>>

\* merge(defaults, options): plain objects are merged key by key, any other
\* object (an instance of Headers) is assigned as it is, in place of the
\* default headers.
MergeInit(options) ==
  [status |-> IF options # Undefined /\ "status" \in DOMAIN options
              THEN options.status ELSE 200,
   headers |-> IF options # Undefined /\ "headers" \in DOMAIN options
               THEN IF IsHeadersInstance(options.headers)
                    THEN options.headers.entries
                    ELSE Spread(JsonHeaders, options.headers)
               ELSE JsonHeaders]

\* The statuses of a response that cannot have a body.
NullBodyStatuses == {101, 204, 205, 304}

\* new Response(body, init) with a body that is a string: a TypeError when
\* init.status is a null body status.
ResponseThrows(init) == init.status \in NullBodyStatuses

\* sendOutput(output, options): the response and the log entry, which is
\* written before the response is built.
sendOutput(request, output, options) ==
  [response |-> [by |-> "run", status |-> MergeInit(options).status,
                 headers |-> MergeInit(options).headers,
                 body |-> Json(output)],
   logs |-> <<Log("debug", request,
                  [e |-> "success",
                   status |-> IF options # Undefined /\ "status" \in DOMAIN options
                              THEN options.status ELSE 200],
                  Undefined)>>]

\* errorResponseSchema.safeParse(body).success: a message, and a data that
\* is a mapping when there is one (null is not).
errorResponseSchema(body) ==
  /\ "message" \in DOMAIN body
  /\ "data" \in DOMAIN body => body.data # NullBody

\* A sendError that writes `data: null` when no data was given.
sendError_NullData(request, status, message, data) ==
  [response |-> [by |-> "run", status |-> status, headers |-> JsonHeaders,
                 body |-> Json([message |-> message,
                                data |-> IF data = Undefined THEN NullBody
                                         ELSE data])],
   logs |-> <<Log("debug", request, [e |-> "error", status |-> status],
                  Undefined)>>]

\* sendError({status, message, data}): JSON.stringify drops an undefined data.
sendError(request, status, message, data) ==
  [response |-> [by |-> "run", status |-> status, headers |-> JsonHeaders,
                 body |-> Json(IF data = Undefined THEN [message |-> message]
                               ELSE [message |-> message, data |-> data])],
   logs |-> <<Log("debug", request, [e |-> "error", status |-> status],
                  Undefined)>>]

\* What run, behaving as `b` on the arguments it was given, returns.
RunReturns(request, args, b) ==
  IF b.k = "sendOutput" THEN sendOutput(request, args, b.options)
  ELSE IF b.k = "sendError" THEN sendError(request, b.status, b.message, b.data)
  ELSE [response |-> [by |-> "run", status |-> b.status, headers |-> NoHeaders,
                      body |-> NullBody],
        logs |-> <<>>]

\* run rejects: it throws, or the helper whose promise it returns does.
RunThrows(b) ==
  \/ b.k = "throw"
  \/ b.k = "sendOutput" /\ ResponseThrows(MergeInit(b.options))

RunError(b) == IF b.k = "throw" THEN b.error ELSE Err("TypeError")

\* What was logged during run before it rejected.
LogsBeforeThrow(request, args, b) ==
  IF b.k = "throw" THEN <<>> ELSE RunReturns(request, args, b).logs

\* The catch block around run: the error log entry, then the 500 response
\* (building it throws when the thrown value has no properties to read).
CatchRunError(request, input, error) ==
  [logs |-> <<Log("error", request,
                  [e |-> "unhandled error when handling request"],
                  [error |-> AsError(error), input |-> input,
                   url |-> UrlOf(request)])>>,
   settled |-> IF Response500Throws(error) THEN Rejected("TypeError")
               ELSE Fulfilled(Response500(error))]

\* A handler that answers 500 itself when run returns an error status.
RunSettles_ErrorStatusIs500(i, b) ==
  /\ inv[i].pc = "awaitRun"
  /\ b \in RunBehaviours
  /\ LET request == inv[i].request
     IN  IF RunThrows(b)
         THEN LET caught == CatchRunError(request, inv[i].input, RunError(b))
              IN  inv' = [inv EXCEPT ![i] =
                     [@ EXCEPT !.pc = "settled",
                               !.runBehaviour = b,
                               !.thrown = RunError(b),
                               !.logs = @ \o LogsBeforeThrow(request,
                                                             inv[i].runArgs, b)
                                          \o caught.logs,
                               !.settled = caught.settled]]
         ELSE LET returned == RunReturns(request, inv[i].runArgs, b)
              IN  inv' = [inv EXCEPT ![i] =
                     [@ EXCEPT !.pc = "settled",
                               !.runBehaviour = b,
                               !.logs = @ \o returned.logs,
                               !.settled =
                                  IF returned.response.status >= 400
                                  THEN Fulfilled(Response500(Err("e1")))
                                  ELSE Fulfilled(returned.response)]]
  /\ UNCHANGED <<route, globalLogger, setLoggerArgs>>

\* `await props.run(...)` settles: its response is returned as it is, a
\* throw goes through the catch block.
RunSettles(i, b) ==
  /\ inv[i].pc = "awaitRun"
  /\ b \in RunBehaviours
  /\ LET request == inv[i].request
     IN  IF RunThrows(b)
         THEN LET caught == CatchRunError(request, inv[i].input, RunError(b))
              IN  inv' = [inv EXCEPT ![i] =
                     [@ EXCEPT !.pc = "settled",
                               !.runBehaviour = b,
                               !.thrown = RunError(b),
                               !.logs = @ \o LogsBeforeThrow(request,
                                                             inv[i].runArgs, b)
                                          \o caught.logs,
                               !.settled = caught.settled]]
         ELSE LET returned == RunReturns(request, inv[i].runArgs, b)
              IN  inv' = [inv EXCEPT ![i] =
                     [@ EXCEPT !.pc = "settled",
                               !.runBehaviour = b,
                               !.logs = @ \o returned.logs,
                               !.settled = Fulfilled(returned.response)]]
  /\ UNCHANGED <<route, globalLogger, setLoggerArgs>>

\* authenticate reads the body of the request object it was given.
AuthenticateReadsBody(i) ==
  /\ inv[i].pc = "awaitAuthentication"
  /\ route.props.authenticate
  /\ inv[i].authenticateRead = Undefined
  /\ inv' = [inv EXCEPT ![i] =
       [@ EXCEPT
          !.authenticateRead =
             BodyRead(inv[i].bodyUsed, AuthenticateArgument, inv[i].request.body),
          !.bodyUsed = [@ EXCEPT ![AuthenticateArgument] = TRUE]]]
  /\ UNCHANGED <<route, globalLogger, setLoggerArgs>>

\* run reads the body of the request object it was given.
RunReadsBody(i) ==
  /\ inv[i].pc = "awaitRun"
  /\ inv[i].runRead = Undefined
  /\ inv' = [inv EXCEPT ![i] =
       [@ EXCEPT
          !.runRead = BodyRead(inv[i].bodyUsed, RunArgument, inv[i].request.body),
          !.bodyUsed = [@ EXCEPT ![RunArgument] = TRUE]]]
  /\ UNCHANGED <<route, globalLogger, setLoggerArgs>>

\* A handler that leaves the input of its last invocation in clientConfig.
Deliver_RecordsInput(i) ==
  /\ inv[i].pc = "settled"
  /\ inv' = [inv EXCEPT ![i] = Idle]
  /\ route' = [route EXCEPT !.clientConfig.input = inv[i].input]
  /\ UNCHANGED <<globalLogger, setLoggerArgs>>

\* The caller has its response (or rejection); the slot takes a new request.
Deliver(i) ==
  /\ inv[i].pc = "settled"
  /\ inv' = [inv EXCEPT ![i] = Idle]
  /\ UNCHANGED <<route, globalLogger, setLoggerArgs>>

(***************************************************************************)
(* Specification                                                           *)
(***************************************************************************)

Init ==
  /\ route = NotConstructed
  /\ inv = [i \in Slots |-> Idle]
  /\ globalLogger = defaultLogger
  /\ setLoggerArgs = <<>>

Next ==
  \/ \E props \in Props : MakeRequestHandler(props)
  \/ \E i \in Slots, request \in Requests : HandlerCall(i, request)
  \/ \E i \in Slots, outcome \in AuthenticateOutcomes \cup {NoAuthenticate} :
        AuthenticationResumes(i, outcome)
  \/ \E i \in Slots : ExtractResumes(i)
  \/ \E i \in Slots : ValidateResumes(i)
  \/ \E i \in Slots, b \in RunBehaviours : RunSettles(i, b)
  \/ \E i \in Slots : Deliver(i)

Spec == Init /\ [][Next]_vars

(***************************************************************************)
(* Construction alone, for routes of every method                          *)
(***************************************************************************)

\* The schemas of the handler's routes, and three with an integer-like name.
DocSchemas ==
  Schemas \cup { <<Field("name", FALSE), Field("7", FALSE)>>,
                 <<Field("7", TRUE), Field("name", FALSE)>>,
                 <<Field("id", FALSE), Field("7", TRUE)>> }

\* The templates of the handler's routes, the root path `/`, two templates
\* with a trailing slash (an empty last segment) and two that name a
\* parameter twice.
DocTemplates ==
  Templates \cup { <<Lit("")>>,
                   <<Lit("api"), Lit("")>>,
                   <<Lit("api"), Param("id"), Lit("")>>,
                   <<Param("id"), Param("id")>>,
                   <<Param("name"), Param("id"), Param("name")>> }

DocProps ==
  [input : DocSchemas, method : HTTPMethod, path : DocTemplates,
   authenticate : BOOLEAN]

DocNext == \E props \in DocProps : MakeRequestHandler(props)

DocSpec == Init /\ [][DocNext]_vars

(***************************************************************************)
(* One request handled on its own                                          *)
(***************************************************************************)

\* The arguments run is called with for `request` when authenticate settles
\* as `outcome`; Undefined when run is not reached.
RunArgsAlone(props, request, outcome) ==
  IF ~MethodAllowed(request, props) THEN Undefined
  ELSE LET auth == handleAuthentication(props.authenticate, request, outcome).result
       IN  IF ~IsAuthenticated(auth) THEN Undefined
           ELSE IF ParamsThrow(props.path, UrlOf(request).pathname) THEN Undefined
           ELSE LET validationResult ==
                      validateInput(props.input,
                                    extractRawInput(request, props.path).data,
                                    request)
                IN  IF ~validationResult.success THEN Undefined
                    ELSE [input |-> validationResult.data,
                          authContext |-> Prop(auth, "context")]

\* How handler(request) settles when authenticate settles as `outcome` and
\* run behaves as `b`.
SettledAlone(props, request, outcome, b) ==
  IF ~MethodAllowed(request, props) THEN Fulfilled(Response405)
  ELSE IF ~IsAuthenticated(
             handleAuthentication(props.authenticate, request, outcome).result)
  THEN Fulfilled(Response401)
  ELSE IF ParamsThrow(props.path, UrlOf(request).pathname)
  THEN Rejected("URIError")
  ELSE LET validationResult ==
             validateInput(props.input,
                           extractRawInput(request, props.path).data, request)
       IN  IF ~validationResult.success
           THEN Fulfilled(validationResult.response)
           ELSE IF RunThrows(b)
           THEN CatchRunError(request, validationResult.data, RunError(b)).settled
           ELSE Fulfilled(RunReturns(request,
                                     RunArgsAlone(props, request, outcome),
                                     b).response)

(***************************************************************************)
(* Interleaved invocations of one handler                                  *)
(***************************************************************************)

\* Two invocations in flight at once.
ConcSlots == {1, 2}

ConcProps ==
  [input : {<<Field("id", FALSE), Field("name", TRUE)>>},
   method : RouteMethods,
   path : {<<Lit("api"), Param("id")>>},
   authenticate : BOOLEAN]

ConcRequests ==
  [method : RequestMethods,
   path : {<<"api", "a">>, <<"api", "%62">>},
   query : {EmptyObj, Obj1("name", Str("q"))},
   body : {NotJson, JsonBody(Obj1("name", Str("p")))}]

ConcOutcomes ==
  {[k |-> "resolve", result |-> AuthOk(c)] : c \in AuthContexts}
    \cup {[k |-> "resolve", result |-> AuthDenied("bad token")]}

ConcBehaviours ==
  {[k |-> "sendOutput", options |-> Undefined],
   [k |-> "throw", error |-> Err("e1")]}

ConcInit ==
  /\ route = NotConstructed
  /\ inv = [i \in ConcSlots |-> Idle]
  /\ globalLogger = defaultLogger
  /\ setLoggerArgs = <<>>

\* Every await of an invocation is a point where the other invocation may
\* run; authenticate and run may read the body of what they were given.
ConcNext ==
  \/ \E props \in ConcProps : MakeRequestHandler(props)
  \/ \E i \in ConcSlots, request \in ConcRequests : HandlerCall(i, request)
  \/ \E i \in ConcSlots : AuthenticateReadsBody(i)
  \/ \E i \in ConcSlots, outcome \in ConcOutcomes \cup {NoAuthenticate} :
        AuthenticationResumes(i, outcome)
  \/ \E i \in ConcSlots : ExtractResumes(i)
  \/ \E i \in ConcSlots : ValidateResumes(i)
  \/ \E i \in ConcSlots : RunReadsBody(i)
  \/ \E i \in ConcSlots, b \in ConcBehaviours : RunSettles(i, b)
  \/ \E i \in ConcSlots : Deliver(i)

ConcSpec == ConcInit /\ [][ConcNext]_vars

(***************************************************************************)
(* The handler of a process that swaps its logger                          *)
(***************************************************************************)

LogNext ==
  \/ \E logger \in Loggers : SetLogger(logger)
  \/ \E props \in ConcProps : MakeRequestHandler(props)
  \/ \E i \in Slots, request \in ConcRequests : HandlerCall(i, request)
  \/ \E i \in Slots, outcome \in ConcOutcomes \cup {NoAuthenticate} :
        AuthenticationResumes(i, outcome)
  \/ \E i \in Slots : ExtractResumes(i)
  \/ \E i \in Slots : ValidateResumes(i)
  \/ \E i \in Slots, b \in ConcBehaviours : RunSettles(i, b)
  \/ \E i \in Slots : Deliver(i)

LogSpec == Init /\ [][LogNext]_vars

(***************************************************************************)
(* Routes and requests of every method                                     *)
(***************************************************************************)

MethodProps ==
  [input : {<<Field("id", FALSE), Field("name", TRUE)>>},
   method : HTTPMethod,
   path : {<<Lit("api")>>, <<Lit("api"), Param("id")>>},
   authenticate : {FALSE}]

\* A GET request cannot be constructed with a body; the other methods can.
MethodRequests ==
  { request \in [method : HTTPMethod,
                 path : {<<"api">>, <<"api", "a">>},
                 query : Queries,
                 body : {NoBody, NotJson, JsonBody(Obj1("name", Str("p"))),
                         JsonBody(Obj2("id", Str("p"), "name", Str("p")))}] :
      request.method = "GET" => request.body = NoBody }

MethodNext ==
  \/ \E props \in MethodProps : MakeRequestHandler(props)
  \/ \E i \in Slots, request \in MethodRequests : HandlerCall(i, request)
  \/ \E i \in Slots : AuthenticationResumes(i, NoAuthenticate)
  \/ \E i \in Slots : ExtractResumes(i)
  \/ \E i \in Slots : ValidateResumes(i)
  \/ \E i \in Slots, b \in ConcBehaviours : RunSettles(i, b)
  \/ \E i \in Slots : Deliver(i)

MethodSpec == Init /\ [][MethodNext]_vars

(***************************************************************************)
(* Properties                                                              *)
(***************************************************************************)

Started(i) == inv[i].pc # "idle"
Settled(i) == inv[i].pc = "settled"
Answered(i, response) == Settled(i) /\ inv[i].settled = Fulfilled(response)

\* authenticate was called and resolved to a denial, or threw.
DeniedOrThrew(i) ==
  /\ inv[i].authOutcome # Undefined
  /\ inv[i].authOutcome.k \in {"resolve", "throw"}
  /\ \/ inv[i].authOutcome.k = "throw"
     \/ /\ inv[i].authOutcome.result # Undefined
        /\ "authenticated" \in DOMAIN inv[i].authOutcome.result
        /\ inv[i].authOutcome.result.authenticated = JsFalse

\* C1: on a route with authenticate, a request with the route's method whose
\* authenticate resolves to a denial or throws is answered with the 401
\* response and run is never called for it.
C1_FailClosed ==
  \A i \in Slots :
    (route.state = "constructed" /\ route.props.authenticate /\ DeniedOrThrew(i))
      => /\ Answered(i, Response401)
         /\ inv[i].settled.response.status = 401
         /\ inv[i].runCalls = 0

C1_Witness ==
  \E i \in Slots :
    /\ inv[i].authOutcome # Undefined
    /\ inv[i].authOutcome.k = "throw"
    /\ inv[i].request.method = route.props.method
    /\ Answered(i, Response401)

\* C2: a request whose method differs from the route's method is answered
\* with the 405 response at once, whatever its path, query and body, and
\* neither authenticate nor run is called.
C2_MethodMismatch405 ==
  \A i \in Slots :
    (Started(i) /\ inv[i].request.method # route.props.method)
      => /\ Answered(i, Response405)
         /\ inv[i].settled.response.status = 405
         /\ inv[i].authenticateCalls = 0
         /\ inv[i].runCalls = 0
         /\ inv[i].bodyReads = 0

C2_Witness ==
  \E i \in Slots :
    /\ Started(i)
    /\ inv[i].request.method # route.props.method
    /\ route.props.authenticate
    /\ inv[i].request.body = NotJson
    /\ ~PathMatches(route.props.path, inv[i].request.path)
    /\ Answered(i, Response405)

\* The values the route's template binds in the request's path.
PathParamsOf(i) == getParamsFromPath(route.props.path, inv[i].request.path)

Extracted(i) == inv[i].unsafeData # Undefined

\* C3: a name bound by the path that also occurs in the query (GET, DELETE)
\* or in the JSON body (POST, PUT, PATCH) has the path-bound value in the
\* merged input handed to validation and in the input given to run.
C3_PathPrecedence ==
  \A i \in Slots :
    Extracted(i) =>
      \A name \in DOMAIN PathParamsOf(i) :
        /\ inv[i].unsafeData[name] = PathParamsOf(i)[name]
        /\ (inv[i].runArgs # Undefined /\ name \in DOMAIN inv[i].runArgs.input)
             => inv[i].runArgs.input[name] = PathParamsOf(i)[name]

\* C4: whatever the request and whatever authenticate and run do, the
\* promise handler(request) returns is fulfilled with a response, never
\* rejected.
C4_NeverRejects ==
  \A i \in Slots : Settled(i) => inv[i].settled.state = "fulfilled"

ErrorLogs(i) == SelectSeq(inv[i].logs, LAMBDA entry : entry.level = "error")

\* C5: when run throws, the response has status 500 and the invocation wrote
\* exactly one error-level log entry, carrying the thrown error, the
\* validated input and the request URL.
C5_RunThrows500 ==
  \A i \in Slots :
    inv[i].thrown # Undefined =>
      /\ Settled(i)
      /\ inv[i].settled.state = "fulfilled"
      /\ inv[i].settled.response.status = 500
      /\ Len(ErrorLogs(i)) = 1
      /\ ErrorLogs(i)[1].meta =
           [error |-> AsError(inv[i].thrown), input |-> inv[i].input,
            url |-> UrlOf(inv[i].request)]

ErrorMessages == {"e1", "e2"}

Answered500(i) ==
  /\ Settled(i)
  /\ inv[i].thrown # Undefined
  /\ inv[i].settled.state = "fulfilled"

\* C6 as stated: the 500 response does not depend on the error run threw;
\* had run thrown an error with another message, this invocation would have
\* produced the same response.
C6_SameResponseForAnyError ==
  \A i \in Slots :
    (Answered500(i) /\ inv[i].thrown.t = "Error") =>
      \A m \in ErrorMessages :
        CatchRunError(inv[i].request, inv[i].input, Err(m)).settled = inv[i].settled

\* C6 amended: a 500 response has no headers and the body { error: message }
\* with the message of the thrown value (an empty object when the value has
\* none), and nothing else of the invocation.
C6_BodyIsThrownMessage ==
  \A i \in Slots :
    Answered500(i) =>
      inv[i].settled.response =
        [by |-> "framework", status |-> 500, headers |-> NoHeaders,
         body |-> IF inv[i].thrown.t = "Error"
                  THEN Json([error |-> inv[i].thrown.message])
                  ELSE Json(EmptyObj)]

C6_Witness ==
  \E i \in Slots :
    /\ Answered500(i)
    /\ inv[i].thrown = Err("e2")
    /\ inv[i].settled.response.body = Json([error |-> "e2"])

\* The schema rejects the merged input, and validation has returned.
Rejects(i) ==
  /\ Extracted(i)
  /\ inv[i].pc # "awaitValidate"
  /\ ~safeParseAsync(route.props.input, inv[i].unsafeData).success

ValidationLogs(i) ==
  SelectSeq(inv[i].logs, LAMBDA entry : entry.msg.e = "request validation failed")

\* C7: when the schema rejects the merged input, the response is 400 with
\* body { error: "Bad request", details: <validation error> }, one warning
\* carries the validation error and the raw merged mapping, and run is not
\* called.
C7_ValidationFailure400 ==
  \A i \in Slots :
    Rejects(i) =>
      LET error == safeParseAsync(route.props.input, inv[i].unsafeData).error
      IN  /\ Answered(i, Response400(error))
          /\ inv[i].settled.response.status = 400
          /\ inv[i].settled.response.body =
               Json([error |-> "Bad request", details |-> error])
          /\ ValidationLogs(i) =
               <<[level |-> "warn", prefix |-> getLoggingPrefix(inv[i].request),
                  msg |-> [e |-> "request validation failed"],
                  meta |-> [validationError |-> error,
                            receivedInput |-> inv[i].unsafeData,
                            url |-> UrlOf(inv[i].request)]]>>
          /\ inv[i].runCalls = 0

C7_Witness ==
  \E i \in Slots :
    /\ Rejects(i)
    /\ inv[i].authenticateCalls = 1
    /\ inv[i].unsafeData # EmptyObj
    /\ inv[i].settled.response.status = 400

\* A body-capable request whose body is not JSON, after validation.
MalformedBody(i) ==
  /\ Extracted(i)
  /\ inv[i].pc # "awaitValidate"
  /\ httpMethodSupportsRequestBody[inv[i].request.method]
  /\ inv[i].request.body.t # "json"

BodyParseLogs(i) ==
  SelectSeq(inv[i].logs, LAMBDA entry : entry.msg.e = "error parsing request body")

C9_ConstructionCheck ==
  route.state # "none" =>
    LET missing == KeyNames(route.props.path) \ ShapeKeys(route.props.input)
    IN  IF missing # {}
        THEN /\ route.state = "threw"
             /\ {route.message.missingNames[n] :
                   n \in 1..Len(route.message.missingNames)} = missing
        ELSE route.state = "constructed"

\* C10: on a route without authenticate no request is answered 401 by the
\* framework (a 401 can only be what run returned), authentication always
\* proceeds, and run is given an undefined auth context.
C10_NoAuthenticateNo401 ==
  \A i \in Slots :
    (Started(i) /\ ~route.props.authenticate) =>
      /\ ~Answered(i, Response401)
      /\ (Settled(i) /\ inv[i].settled.state = "fulfilled"
            /\ inv[i].settled.response.status = 401) => inv[i].runCalls = 1
      /\ inv[i].authenticateCalls = 0
      /\ inv[i].authResult # Undefined =>
           /\ IsAuthenticated(inv[i].authResult)
           /\ inv[i].authResult.context = Undefined
      /\ inv[i].runArgs # Undefined => inv[i].runArgs.authContext = Undefined

C10_Witness ==
  \E i \in Slots :
    /\ Started(i)
    /\ ~route.props.authenticate
    /\ inv[i].runArgs # Undefined
    /\ inv[i].runArgs.authContext = Undefined
    /\ Settled(i)
    /\ inv[i].settled.state = "fulfilled"
    /\ inv[i].settled.response.status = 401

(***************************************************************************)
(* Properties of the documentation object and of the pipeline as a whole   *)
(***************************************************************************)

\* The operation of the route's documentation object.
Operation == route.openAPIPathsObject.operation

\* A status is advertised when `responses` holds a descriptor for it.
Advertises(code) ==
  /\ code \in DOMAIN Operation.responses
  /\ Operation.responses[code] # Undefined

\* C11: the documented responses always advertise 200 and 400, advertise 401
\* exactly when the route has an authenticate, never advertise 405 or 500;
\* and the framework answers 401 only on a route whose documentation
\* advertises it.
C11_ResponsesMatchAuth ==
  route.state = "constructed" =>
    /\ Advertises(200)
    /\ Advertises(400)
    /\ Advertises(401) <=> route.props.authenticate
    /\ ~Advertises(405)
    /\ ~Advertises(500)
    /\ \A i \in Slots : Answered(i, Response401) => Advertises(401)

\* The advertised 401 branch is taken at run time.
C11_Witness ==
  /\ route.state = "constructed"
  /\ Advertises(401)
  /\ \E i \in Slots : Answered(i, Response401)

\* The request does not have the route's method.
MethodFails(i) == inv[i].request.method # route.props.method

\* handleAuthentication gave a result that is not an authenticated one.
AuthenticationFails(i) ==
  inv[i].authResult # Undefined /\ ~IsAuthenticated(inv[i].authResult)

\* The request's merged input, were it extracted, does not fit the schema.
InputWouldFail(i) ==
  /\ ~ParamsThrow(route.props.path, inv[i].request.path)
  /\ ~safeParseAsync(route.props.input,
                     extractRawInput(inv[i].request, route.props.path).data).success

FrameworkStatus(i, status) ==
  /\ Settled(i)
  /\ inv[i].settled.state = "fulfilled"
  /\ inv[i].settled.response.by = "framework"
  /\ inv[i].settled.response.status = status

\* C12: the stages run in the order method check, authentication, input
\* extraction and validation, dispatch: a failing method check gives 405
\* before authenticate is called, a failing authentication gives 401 before
\* the body is read or the input validated, a failing validation gives 400
\* before run is called, and each stage is entered only when the stages
\* before it have passed.
C12_StageOrder ==
  \A i \in Slots :
    Started(i) =>
      /\ MethodFails(i) =>
           /\ Answered(i, Response405)
           /\ inv[i].authenticateCalls = 0
           /\ inv[i].authResult = Undefined
           /\ inv[i].bodyReads = 0
           /\ inv[i].unsafeData = Undefined
           /\ inv[i].runCalls = 0
      /\ AuthenticationFails(i) =>
           /\ ~MethodFails(i)
           /\ Answered(i, Response401)
           /\ inv[i].bodyReads = 0
           /\ inv[i].unsafeData = Undefined
           /\ inv[i].runCalls = 0
      /\ FrameworkStatus(i, 400) =>
           /\ ~MethodFails(i)
           /\ IsAuthenticated(inv[i].authResult)
           /\ inv[i].runCalls = 0
      /\ inv[i].authenticateCalls > 0 => ~MethodFails(i)
      /\ (inv[i].bodyReads > 0 \/ Extracted(i)) =>
           IsAuthenticated(inv[i].authResult)
      /\ inv[i].runCalls > 0 =>
           /\ Extracted(i)
           /\ safeParseAsync(route.props.input, inv[i].unsafeData).success

\* Authentication and validation both fail for the request: it gets the 401.
C12_Witness ==
  \E i \in Slots :
    /\ Started(i)
    /\ ~MethodFails(i)
    /\ AuthenticationFails(i)
    /\ InputWouldFail(i)
    /\ Answered(i, Response401)

\* The response is one of the framework's four, or what run returned.
TerminalResponse(i) ==
  \/ inv[i].settled.response \in {Response405, Response401}
  \/ FrameworkStatus(i, 400)
  \/ FrameworkStatus(i, 500)
  \/ inv[i].settled.response.by = "run" /\ inv[i].runCalls = 1

\* C13: an invocation that has ended has ended with exactly one response,
\* the 405, 401, 400 or 500 response of the framework or the response run
\* returned; authenticate and run are each called at most once in it.
C13_OneResponse ==
  \A i \in Slots :
    /\ inv[i].authenticateCalls <= 1
    /\ inv[i].runCalls <= 1
    /\ Settled(i) =>
         /\ inv[i].settled.state = "fulfilled"
         /\ TerminalResponse(i)

\* Two invocations met the same behaviour of user code wherever both of them
\* reached it (a deterministic authenticate, a deterministic run).
SameWhereReached(a, b) == a = Undefined \/ b = Undefined \/ a = b

SameCircumstances(i, j) ==
  /\ inv[i].request = inv[j].request
  /\ SameWhereReached(inv[i].authOutcome, inv[j].authOutcome)
  /\ SameWhereReached(inv[i].runBehaviour, inv[j].runBehaviour)

\* C14: two invocations of the handler with structurally identical requests,
\* whose authenticate and run behave the same way, end with identical
\* responses (status, headers, body) and gave run identical arguments,
\* whichever of the two came first and whatever the other had done by then.
C14_Idempotent ==
  \A i, j \in ConcSlots :
    (Settled(i) /\ Settled(j) /\ SameCircumstances(i, j))
      => /\ inv[i].settled = inv[j].settled
         /\ inv[i].runArgs = inv[j].runArgs

\* Two invocations with the same request, both answered by run.
C14_Witness ==
  /\ Settled(1) /\ Settled(2)
  /\ SameCircumstances(1, 2)
  /\ inv[1].request.body # NotJson
  /\ inv[1].settled.state = "fulfilled"
  /\ inv[1].settled.response.by = "run"
  /\ inv[2].settled = inv[1].settled

\* C15: however the invocations of one handler interleave at their awaits,
\* each request gets the response, and its run the input and auth context,
\* that the request would get handled alone; nothing of another invocation
\* shows in them.
C15_Reentrant ==
  \A i \in ConcSlots :
    /\ Settled(i) =>
         inv[i].settled = SettledAlone(route.props, inv[i].request,
                                       inv[i].authOutcome, inv[i].runBehaviour)
    /\ inv[i].runCalls > 0 =>
         inv[i].runArgs = RunArgsAlone(route.props, inv[i].request,
                                       inv[i].authOutcome)
    /\ Extracted(i) =>
         inv[i].unsafeData =
           extractRawInput(inv[i].request, route.props.path).data

\* Both invocations are waiting for run at once, each with its own input
\* and its own auth context.
C15_Witness ==
  /\ inv[1].pc = "awaitRun"
  /\ inv[2].pc = "awaitRun"
  /\ inv[1].runArgs.input # inv[2].runArgs.input
  /\ inv[1].runArgs.authContext = [user |-> "u1"]
  /\ inv[2].runArgs.authContext = [user |-> "u2"]

\* C16: the copy handed to authenticate and the copy handed to run are
\* unconsumed when handed over, a read of either gives the request's body,
\* and so does the framework's own read of the original: authenticate
\* reading its copy does not change the extracted input, and the extraction
\* does not consume the copy of run.
C16_CloneDiscipline ==
  \A i \in ConcSlots : Started(i) =>
    /\ inv[i].authenticateRead \in {Undefined, inv[i].request.body}
    /\ inv[i].frameworkRead \in {Undefined, inv[i].request.body}
    /\ inv[i].runRead \in {Undefined, inv[i].request.body}
    /\ (inv[i].pc = "awaitAuthentication" /\ route.props.authenticate
          /\ inv[i].authenticateRead = Undefined)
         => ~inv[i].bodyUsed["requestForAuth"]
    /\ (inv[i].pc = "awaitRun" /\ inv[i].runRead = Undefined)
         => ~inv[i].bodyUsed["requestForRun"]
    /\ (inv[i].authenticateRead # Undefined /\ Extracted(i))
         => inv[i].unsafeData =
              extractRawInput(inv[i].request, route.props.path).data

\* authenticate, the framework and run have each read the JSON body of one
\* POST request.
C16_Witness ==
  \E i \in ConcSlots :
    /\ inv[i].pc = "settled"
    /\ inv[i].request.method = "POST"
    /\ inv[i].request.body = JsonBody(Obj1("name", Str("p")))
    /\ inv[i].authenticateRead = inv[i].request.body
    /\ inv[i].frameworkRead = inv[i].request.body
    /\ inv[i].runRead = inv[i].request.body
    /\ inv[i].unsafeData["name"] = Str("p")

\* The documentation lists `name` as a parameter located in `location`.
DocumentedParameter(name, location) ==
  \E n \in 1..Len(Operation.parameters) :
    /\ Operation.parameters[n].name = name
    /\ Operation.parameters[n].in = location

\* The documentation lists `name` as a property of the JSON request body.
DocumentedInBody(name) ==
  /\ Operation.requestBody # Undefined
  /\ name \in ShapeKeys(Operation.requestBody.content.json)

\* The mapping `source` holds the value the runtime took for `name`.
TakenFrom(i, name, source) ==
  /\ name \in DOMAIN source
  /\ inv[i].unsafeData[name] = source[name]

\* C17: for a request on the route's path and every field of the input
\* schema that the runtime found a value for, the value comes from where the
\* documentation puts the field: from
\* the URL path for a path parameter, from the query string for a query
\* parameter, from the JSON body for a property of the request body.
C17_DocumentedSourceIsRuntimeSource ==
  \A i \in Slots :
    (Extracted(i) /\ PathMatches(route.props.path, inv[i].request.path)) =>
      \A name \in ShapeKeys(route.props.input) \cap DOMAIN inv[i].unsafeData :
        /\ DocumentedParameter(name, "path")
             => TakenFrom(i, name, PathParamsOf(i))
        /\ DocumentedParameter(name, "query")
             => TakenFrom(i, name, inv[i].request.query)
        /\ DocumentedInBody(name)
             => /\ inv[i].request.body.t = "json"
                /\ TakenFrom(i, name, inv[i].request.body.v)

\* The documentation marks `name` as required: a parameter with
\* required: true, or a name in the `required` list of the body schema.
DocumentedRequired(name) ==
  \/ \E n \in 1..Len(Operation.parameters) :
        /\ Operation.parameters[n].name = name
        /\ Operation.parameters[n].required
  \/ /\ DocumentedInBody(name)
     /\ ~FieldOf(Operation.requestBody.content.json, name).optional

\* The request does not carry `name` in a place the documentation gives it.
OmittedFromDocumentedSource(i, name) ==
  \/ DocumentedParameter(name, "path") /\ name \notin DOMAIN PathParamsOf(i)
  \/ DocumentedParameter(name, "query") /\ name \notin DOMAIN inv[i].request.query
  \/ /\ DocumentedInBody(name)
     /\ inv[i].request.body.t = "json"
     /\ name \notin DOMAIN inv[i].request.body.v

\* Validation finds nothing wrong with any other field.
OtherwiseValid(i, name) ==
  \A issue \in Issues(route.props.input, inv[i].unsafeData) : issue.path = name

ValidationDone(i) == Extracted(i) /\ inv[i].pc \in {"awaitRun", "settled"}

\* C18: for a request on the route's path that omits one field of the input
\* schema from its documented source and is valid otherwise, the handler
\* answers 400 exactly when the documentation marks the field as required.
C18_RequiredIffRejected ==
  \A i \in Slots :
    (ValidationDone(i) /\ PathMatches(route.props.path, inv[i].request.path)) =>
      \A name \in ShapeKeys(route.props.input) :
        (OmittedFromDocumentedSource(i, name) /\ OtherwiseValid(i, name))
          => (DocumentedRequired(name) <=> FrameworkStatus(i, 400))

BodyMethods == {"POST", "PUT", "PATCH"}

\* C19: the documented operation has a requestBody exactly when the route's
\* method is POST, PUT or PATCH and none for GET and DELETE; parameters
\* located in the query occur only for GET and DELETE, so for POST, PUT and
\* PATCH every documented parameter is a path parameter.
C19_RequestBodyIffBodyMethod ==
  route.state = "constructed" =>
    /\ Operation.requestBody # Undefined <=> route.props.method \in BodyMethods
    /\ route.props.method \in {"GET", "DELETE"} =>
         Operation.requestBody = Undefined
    /\ (\E name \in FieldNames : DocumentedParameter(name, "query"))
         => route.props.method \notin BodyMethods
    /\ route.props.method \in BodyMethods =>
         \A n \in 1..Len(Operation.parameters) :
           Operation.parameters[n].in = "path"

\* A PATCH route with a path-bound field and another field: a request body
\* and one parameter.
C19_Witness ==
  /\ route.state = "constructed"
  /\ route.props.method = "PATCH"
  /\ Len(route.props.input) = 2
  /\ Operation.requestBody # Undefined
  /\ Len(Operation.parameters) = 1
  /\ Operation.parameters[1].in = "path"

\* The name and location of each documented parameter, in order.
ParameterList ==
  [n \in 1..Len(Operation.parameters) |->
     <<Operation.parameters[n].name, Operation.parameters[n].in>>]

\* The fields that no `:name` of the template binds, in construction order.
UnboundFields ==
  SelectSeq(route.props.input,
            LAMBDA field : \A n \in 1..Len(route.props.path) :
                             route.props.path[n] # Param(field.name))

\* The `:name` segments of the template, in template order.
TemplateParams == SelectSeq(route.props.path, LAMBDA seg : seg.k = "param")

\* C20: for GET and DELETE the documented parameters are one query parameter
\* for every schema field that is not a path parameter, in the schema's
\* construction order, then one path parameter for every parameter of the
\* template, in template order; every schema field is listed and none twice.
C20_ParameterList ==
  (route.state = "constructed" /\ route.props.method \in {"GET", "DELETE"}) =>
    /\ ParameterList =
         [n \in 1..Len(UnboundFields) |-> <<UnboundFields[n].name, "query">>]
           \o [n \in 1..Len(TemplateParams) |-> <<TemplateParams[n].s, "path">>]
    /\ \A name \in ShapeKeys(route.props.input) :
         \E n \in 1..Len(ParameterList) : ParameterList[n][1] = name
    /\ \A n, m \in 1..Len(ParameterList) :
         ParameterList[n][1] = ParameterList[m][1] => n = m

\* The segments of one kind, in order.
SegmentsOf(path, kind) == SelectSeq(path, LAMBDA seg : seg.k = kind)

\* C21: the documented path has a `{name}` group for every `:name` of the
\* template, as many groups as the template has parameters, with the same
\* names in the same order; every literal segment (the empty one of a
\* trailing slash too) stays where it was, and a template without
\* parameters is kept as it is.
C21_WireFormatPath ==
  route.state = "constructed" =>
    LET template == route.props.path
        wire == route.openAPIPathsObject.path
    IN  /\ Len(wire) = Len(template)
        /\ \A n \in 1..Len(template) :
             IF template[n].k = "param"
             THEN wire[n] = [k |-> "brace", s |-> template[n].s]
             ELSE wire[n] = template[n]
        /\ Len(SegmentsOf(wire, "brace")) = Len(SegmentsOf(template, "param"))
        /\ \A n \in 1..Len(SegmentsOf(wire, "brace")) :
             SegmentsOf(wire, "brace")[n].s = SegmentsOf(template, "param")[n].s
        /\ SegmentsOf(wire, "param") = <<>>
        /\ SegmentsOf(wire, "lit") = SegmentsOf(template, "lit")
        /\ SegmentsOf(template, "param") = <<>> => wire = template

\* A template with two parameters has become a path with two groups.
C21_Witness ==
  /\ route.state = "constructed"
  /\ route.props.path = <<Param("id"), Param("name")>>
  /\ route.openAPIPathsObject.path =
       <<[k |-> "brace", s |-> "id"], [k |-> "brace", s |-> "name"]>>

\* C22: getLogger() gives the default logger as long as setLogger has not
\* been called, and after any sequence of setLogger calls the logger passed
\* to the last of them.
C22_LoggerCell ==
  getLogger = IF setLoggerArgs = <<>> THEN defaultLogger
              ELSE setLoggerArgs[Len(setLoggerArgs)]

\* Three calls, each with another logger than the one before: the last one,
\* the default logger put back, is in place.
C22_Witness ==
  /\ setLoggerArgs = <<"loggerA", "loggerB", defaultLogger>>
  /\ getLogger = defaultLogger

\* The events an invocation can log.
LogEvents ==
  {"begin", "invalid HTTP method", "authentication failed",
   "error during authentication check", "error parsing request body",
   "request validation failed", "success", "error",
   "unhandled error when handling request"}

\* C23: every log message of an invocation, whichever event it reports,
\* starts with `Handler <METHOD> <path>`, METHOD being the method of the
\* incoming request and path the pathname of its URL.
C23_LogPrefix ==
  \A i \in Slots :
    \A n \in 1..Len(inv[i].logs) :
      /\ inv[i].logs[n].msg.e \in LogEvents
      /\ inv[i].logs[n].prefix =
           [method |-> inv[i].request.method, pathname |-> inv[i].request.path]

\* A request with another method than the route's has its own method in the
\* prefix of the warning.
C23_Witness ==
  \E i \in Slots :
    /\ Settled(i)
    /\ inv[i].request.method = "POST"
    /\ route.props.method = "GET"
    /\ inv[i].logs[Len(inv[i].logs)].msg.e = "invalid HTTP method"
    /\ inv[i].logs[Len(inv[i].logs)].prefix.method = "POST"
    /\ inv[i].logs[Len(inv[i].logs)].prefix.pathname = <<"api", "%62">>

\* run answered with the helper `helper` (sendOutput or sendError).
AnsweredWith(i, helper) ==
  /\ Settled(i)
  /\ inv[i].runBehaviour # Undefined
  /\ inv[i].runBehaviour.k = helper

HasOption(options, key) == options # Undefined /\ key \in DOMAIN options

\* The names and values of a HeadersInit.
HeaderEntries(headers) ==
  IF IsHeadersInstance(headers) THEN headers.entries ELSE headers

LastLog(i) == inv[i].logs[Len(inv[i].logs)]

\* C24: the response of sendOutput(output, options) has the JSON of output
\* as its body, status 200 or options.status, and headers that hold
\* Content-Type: application/json together with every header of options;
\* the debug event `success <status>` with that status is logged.
C24_SendOutput ==
  \A i \in Slots :
    AnsweredWith(i, "sendOutput") =>
      LET options == inv[i].runBehaviour.options
          response == inv[i].settled.response
          status == IF HasOption(options, "status") THEN options.status ELSE 200
      IN  /\ response.body = Json(inv[i].runArgs)
          /\ response.status = status
          /\ "Content-Type" \in DOMAIN response.headers
          /\ response.headers["Content-Type"] = "application/json"
          /\ HasOption(options, "headers") =>
               \A name \in DOMAIN HeaderEntries(options.headers) :
                 /\ name \in DOMAIN response.headers
                 /\ response.headers[name] = HeaderEntries(options.headers)[name]
          /\ LastLog(i) = Log("debug", inv[i].request,
                              [e |-> "success", status |-> status], Undefined)

C26_FrameworkResponsesAreJson ==
  \A i \in Slots :
    (Settled(i) /\ inv[i].settled.state = "fulfilled"
       /\ inv[i].settled.response.by = "framework")
      => /\ inv[i].settled.response.status \in {405, 401, 400, 500}
         /\ inv[i].settled.response.body.t = "json"

\* C26 (amended): every response the handler makes itself has one of the
\* statuses 405, 401, 400, 500; the 405, 400 and 500 responses carry a
\* well-formed JSON body and the 401 response an empty one.
C26_FrameworkResponseBodies ==
  \A i \in Slots :
    (Settled(i) /\ inv[i].settled.state = "fulfilled"
       /\ inv[i].settled.response.by = "framework")
      => /\ inv[i].settled.response.status \in {405, 401, 400, 500}
         /\ inv[i].settled.response.body.t =
              (IF inv[i].settled.response.status = 401 THEN "null" ELSE "json")

C26_Witness ==
  \E i \in Slots :
    /\ Settled(i)
    /\ inv[i].authenticateCalls = 1
    /\ inv[i].settled = Fulfilled(Response401)
    /\ inv[i].settled.response.body = NullBody

\* The one source the table of methods names for a request: the query string
\* for GET and DELETE, the JSON body (nothing when it does not parse) for
\* POST, PUT and PATCH.
NamedSource(request) ==
  IF request.method \in {"GET", "DELETE"} THEN request.query
  ELSE IF request.body.t = "json" THEN request.body.v ELSE EmptyObj

\* C27: the merged input of a GET or DELETE request is built from the query
\* string and the path only, that of a POST, PUT or PATCH request from the
\* JSON body and the path only: its names are those of the path and of that
\* one source, and each value is the one the path or that source gives.
C27_InputSourceByMethod ==
  \A i \in Slots :
    Extracted(i) =>
      LET source == NamedSource(inv[i].request)
          data == inv[i].unsafeData
      IN  /\ DOMAIN data = DOMAIN PathParamsOf(i) \cup DOMAIN source
          /\ \A name \in DOMAIN data :
                \/ name \in DOMAIN PathParamsOf(i) /\ data[name] = PathParamsOf(i)[name]
                \/ name \in DOMAIN source /\ data[name] = source[name]

\* A DELETE with a JSON body that names a field: the merged input has the
\* value of the query string for it.
C27_Witness ==
  \E i \in Slots :
    /\ Extracted(i)
    /\ inv[i].request.method = "DELETE"
    /\ inv[i].request.query = Obj1("name", Str("q"))
    /\ inv[i].request.body = JsonBody(Obj2("id", Str("p"), "name", Str("p")))
    /\ inv[i].unsafeData.name = Str("q")

\* authenticate resolved to the `authenticated: true` variant.
ExplicitlyAuthenticated(outcome) ==
  /\ outcome.k = "resolve"
  /\ outcome.result # Undefined
  /\ Prop(outcome.result, "authenticated") = JsTrue

\* C28: on a route with authenticate, run has been called for a request only
\* if authenticate was called for it and resolved to an explicit
\* authenticated result; every other way authenticate settles (a denial, a
\* throw, a result that is neither variant) is answered with the 401
\* response, without a call of run.
C28_RunOnlyIfAuthenticated ==
  \A i \in Slots :
    (Started(i) /\ route.props.authenticate) =>
      /\ inv[i].runCalls > 0 =>
           /\ inv[i].authenticateCalls = 1
           /\ inv[i].authOutcome # Undefined
           /\ ExplicitlyAuthenticated(inv[i].authOutcome)
      /\ (inv[i].authOutcome # Undefined
            /\ ~ExplicitlyAuthenticated(inv[i].authOutcome)) =>
           /\ Answered(i, Response401)
           /\ inv[i].runCalls = 0

\* C29: whenever run is called, its input is the value the schema accepted
\* and returned for the merged mapping, not the mapping itself: the schema
\* accepts the mapping, the input has declared names only, and the schema
\* accepts the input too.
C29_RunGetsValidatedInput ==
  \A i \in Slots :
    inv[i].runCalls > 0 =>
      LET parsedData == safeParseAsync(route.props.input, inv[i].unsafeData)
      IN  /\ parsedData.success
          /\ inv[i].runArgs.input = parsedData.data
          /\ DOMAIN inv[i].runArgs.input \subseteq ShapeKeys(route.props.input)
          /\ Issues(route.props.input, inv[i].runArgs.input) = {}

\* run is called for a merged mapping with a name the schema does not declare.
C29_Witness ==
  \E i \in Slots :
    /\ inv[i].runCalls > 0
    /\ ~(DOMAIN inv[i].unsafeData \subseteq ShapeKeys(route.props.input))
    /\ inv[i].runArgs.input # inv[i].unsafeData
    /\ route.props.input # <<>>

\* The events that report how an invocation ended; the warning about a body
\* that does not parse reports a step the handler recovered from.
OutcomeEvents == LogEvents \ {"begin", "error parsing request body"}

OutcomeLogs(i) ==
  SelectSeq(inv[i].logs, LAMBDA entry : entry.msg.e \in OutcomeEvents)

\* C30: the debug event `begin` is the first log event of every invocation
\* and occurs once; an invocation that has its response wrote exactly one
\* outcome event after it, or none when run returned a response of its own
\* without a helper.
C30_LogPairing ==
  \A i \in Slots :
    Started(i) =>
      /\ inv[i].logs[1].level = "debug"
      /\ inv[i].logs[1].msg.e = "begin"
      /\ \A n \in 2..Len(inv[i].logs) : inv[i].logs[n].msg.e # "begin"
      /\ (Settled(i) /\ inv[i].settled.state = "fulfilled") =>
           Len(OutcomeLogs(i)) = (IF AnsweredWith(i, "respond") THEN 0 ELSE 1)

\* C31: a request whose path does not match the route's template binds no
\* path values and is never handed to run: its invocation ends in a
\* response of the framework.
C31_OnePathPerHandler ==
  \A i \in Slots :
    (Started(i) /\ ~PathMatches(route.props.path, inv[i].request.path)) =>
      /\ PathParamsOf(i) = EmptyObj
      /\ inv[i].runCalls = 0
      /\ (Settled(i) /\ inv[i].settled.state = "fulfilled") =>
           inv[i].settled.response.by = "framework"

\* The handler has come to the call of getParamsFromPath for the request.
ParamsRequested(i) ==
  /\ Started(i)
  /\ ~MethodFails(i)
  /\ inv[i].authResult # Undefined
  /\ IsAuthenticated(inv[i].authResult)

\* C32: getParamsFromPath(template, path) never throws; it returns the empty
\* mapping when the path does not match the template, and on a match one
\* string for each parameter name of the template and nothing else.
C32_GetParamsFromPath ==
  \A i \in Slots :
    ParamsRequested(i) =>
      LET pattern == route.props.path
          input == UrlOf(inv[i].request).pathname
          params == getParamsFromPath(pattern, input)
      IN  /\ ~ParamsThrow(pattern, input)
          /\ inv[i].settled # Rejected("URIError")
          /\ ~PathMatches(pattern, input) => params = EmptyObj
          /\ PathMatches(pattern, input) =>
               /\ DOMAIN params = KeyNames(pattern)
               /\ \A name \in DOMAIN params : params[name].t = "string"

\* The names of the documented path parameters, in order.
DocumentedPathNames ==
  LET entries == SelectSeq(Operation.parameters,
                           LAMBDA entry : entry.in = "path")
  IN  [n \in 1..Len(entries) |-> entries[n].name]

\* C33: getKeysFromPathPattern gives the `:name` parameters of the template
\* in order of appearance, one entry for each occurrence: a name written
\* twice is given twice. The path parameters documented for a route, and
\* the names listed by the error of a refused construction, show them.
C33_KeysInOrderWithDuplicates ==
  /\ route.state = "constructed" =>
       DocumentedPathNames = [n \in 1..Len(TemplateParams) |-> TemplateParams[n].s]
  /\ (route.state = "threw" /\ route.message.missingNames # <<>>) =>
       LET missing == SelectSeq(TemplateParams,
                                LAMBDA seg : ~InShape(seg.s, route.props.input))
       IN  route.message.missingNames = [n \in 1..Len(missing) |-> missing[n].s]

\* A template that names `name` twice around `id`: three keys.
C33_Witness ==
  /\ route.state = "constructed"
  /\ route.props.path = <<Param("name"), Param("id"), Param("name")>>
  /\ DocumentedPathNames = <<"name", "id", "name">>

\* run returned a response: it did not throw and no helper it awaited did.
RunReturned(i) ==
  /\ Settled(i)
  /\ inv[i].runBehaviour # Undefined
  /\ ~RunThrows(inv[i].runBehaviour)

\* C34: when run returns a response, built with sendOutput, with sendError
\* or by hand, whatever its status, the handler's result is that response
\* with its status, headers and body; the handler puts no response of its
\* own in its place and logs no error.
C34_PassThrough ==
  \A i \in Slots :
    RunReturned(i) =>
      LET b == inv[i].runBehaviour
          returned == RunReturns(inv[i].request, inv[i].runArgs, b).response
      IN  /\ inv[i].settled = Fulfilled(returned)
          /\ inv[i].settled.response.by = "run"
          /\ b.k \in {"sendError", "respond"} =>
               inv[i].settled.response.status = b.status
          /\ inv[i].thrown = Undefined
          /\ ErrorLogs(i) = <<>>
          /\ inv[i].runCalls = 1

\* run answers with an error status, by hand or with sendError: the caller
\* gets that status.
C34_Witness ==
  \E i \in Slots :
    /\ RunReturned(i)
    /\ inv[i].runBehaviour.k \in {"sendError", "respond"}
    /\ inv[i].runBehaviour.status \in {401, 422}
    /\ inv[i].settled.response.status = inv[i].runBehaviour.status
    /\ inv[i].settled.response.by = "run"

\* C35: when authenticate resolved to an authenticated result with context
\* c for a request and run is called for it, the authContext run is given
\* is c, whatever the other invocation in flight was given.
C35_AuthContextCarried ==
  \A i \in DOMAIN inv :
    (inv[i].runArgs # Undefined /\ route.props.authenticate) =>
      /\ inv[i].authOutcome # Undefined
      /\ inv[i].authOutcome.k = "resolve"
      /\ ExplicitlyAuthenticated(inv[i].authOutcome) =>
           inv[i].runArgs.authContext = inv[i].authOutcome.result.context

\* Two invocations in flight, authenticated with different contexts, each
\* given its own.
C35_Witness ==
  /\ DOMAIN inv = ConcSlots
  /\ inv[1].runArgs # Undefined
  /\ inv[2].runArgs # Undefined
  /\ inv[1].pc = "awaitRun"
  /\ inv[2].pc = "awaitRun"
  /\ inv[1].runArgs.authContext = [user |-> "u1"]
  /\ inv[2].runArgs.authContext = [user |-> "u2"]

\* C36: once makeRequestHandler has returned, no step of request handling
\* changes the route: openAPIPathsObject and clientConfig stay what they
\* were at construction, whatever the invocations and their outcomes.
C36_DocumentationFrozen ==
  [][route.state = "constructed" =>
       /\ route'.state = "constructed"
       /\ route'.openAPIPathsObject = route.openAPIPathsObject
       /\ route'.clientConfig = route.clientConfig]_vars

\* An invocation that ran to its end, on a route whose documentation and
\* client config are those of its construction.
C36_Witness ==
  \E i \in Slots :
    /\ Settled(i)
    /\ inv[i].runCalls = 1
    /\ route.state = "constructed"
    /\ route.openAPIPathsObject = Constructed(route.props).openAPIPathsObject
    /\ route.clientConfig = [input |-> EmptyObj, method |-> route.props.method,
                             path |-> route.props.path]

\* C37: the logger of an invocation, the one every log event of it is
\* written to, is the global logger of the moment the invocation began, and
\* stays that one until the invocation is over, whatever setLogger installs
\* in the meantime.
C37_LoggerSnapshot ==
  [][\A i \in Slots :
       inv'[i].pc # "idle" =>
         inv'[i].logger = (IF inv[i].pc = "idle" THEN globalLogger
                           ELSE inv[i].logger)]_vars

\* An invocation suspended on run, after the warning about its body, while
\* another logger than its own is installed.
C37_Witness ==
  \E i \in Slots :
    /\ inv[i].pc = "awaitRun"
    /\ Len(inv[i].logs) = 2
    /\ inv[i].logger = "loggerA"
    /\ globalLogger = "loggerB"

\* C38: in one invocation the framework reads the body of the original
\* request at most once, only when the request's method has a body and
\* only after the method check and authentication have passed; an
\* invocation answered 405 or 401 by the framework has not read it.
C38_SingleBodyRead ==
  \A i \in Slots :
    Started(i) =>
      /\ inv[i].bodyReads <= 1
      /\ inv[i].bodyReads = 1 =>
           /\ httpMethodSupportsRequestBody[inv[i].request.method]
           /\ ~MethodFails(i)
           /\ inv[i].authResult # Undefined
           /\ IsAuthenticated(inv[i].authResult)
      /\ inv[i].bodyUsed["request"] <=> inv[i].bodyReads = 1
      /\ (Answered(i, Response405) \/ Answered(i, Response401)) =>
           /\ inv[i].bodyReads = 0
           /\ ~inv[i].bodyUsed["request"]

\* A POST whose body is not JSON, read once, has run to its end on a route
\* with authenticate.
C38_Witness ==
  \E i \in Slots :
    /\ Settled(i)
    /\ route.props.authenticate
    /\ inv[i].request.method = "POST"
    /\ inv[i].request.body = NotJson
    /\ inv[i].bodyReads = 1
    /\ inv[i].runCalls = 1

====
